---------------------------- MODULE Spec2Model ----------------------------
(***************************************************************************)
(* NSE breakout scanner (scanner.py): the per-symbol breakout evaluation   *)
(* check_stock, the batch loop and presentation of run_scanner, the        *)
(* chunked delivery of send_telegram, and the History Store of the design  *)
(* document.                                                               *)
(*                                                                         *)
(* Units.  A frame cell is described by the decimal the data source      *)
(* quotes: a price as an integer in 1/PriceScale rupee (mills), a volume  *)
(* as an integer.  The program holds the binary64 nearest to the quote    *)
(* (FOfMills) and computes in binary64; that arithmetic is modelled bit   *)
(* for bit: a float is [s, m, e], standing for s * m * 2^e, with m a      *)
(* 53-bit natural number kept as a sequence of limbs, least significant   *)
(* first.  A value emitted through round(x, 2) is an integer in           *)
(* hundredths: the float it stands for is the one nearest to it.          *)
(***************************************************************************)
EXTENDS Integers, Sequences, FiniteSets, TLC

VARIABLES
    market,     \* symbol -> what yf.download yields for it (descriptor)
    creds,      \* TELEGRAM_BOT_TOKEN and TELEGRAM_CHAT_ID are both set
    symLen,     \* length of the ticker names of this universe
    total,      \* len(stocks)
    pc,         \* position of run_scanner
    i,          \* number of symbols already scanned by the loop
    evals,      \* locals of each check_stock call made so far, in call order
    results,    \* run_scanner.results
    batchAt,    \* batch_start of the next batch to send
    calls,      \* send_telegram calls made so far: [msg, body]
    posts,      \* requests.post attempts so far: [call, chunk, outcome]
    store,      \* History Store: symbol -> Series
    lastIngest  \* arguments of the last ingest call

vars == <<market, creds, symLen, total, pc, i, evals, results, batchAt,
          calls, posts, store, lastIngest>>

scanVars == <<market, creds, symLen, total, pc, i, evals, results, batchAt,
              calls, posts>>

storeVars == <<store, lastIngest>>

(***************************************************************************)
(* Program constants                                                       *)
(***************************************************************************)
VOL_MULTIPLIER == 150
VOL_MA_PERIOD == 30
LOOKBACK_DAYS == 252
EMA_PERIOD == 21
MIN_PRICE_RUPEES == 100
MAX_PRICE_RUPEES == 2000
MIN_VOLUME == 50000
WARMUP_ROWS == 5
CHUNK_SIZE == 4000
BATCH_SIZE == 10

\* Lengths of the literal parts of the messages run_scanner builds.
EMPTY_TEXT_LEN == 164
HEADER_TEXT_LEN == 116
FOOTER_TEXT_LEN == 164
ENTRY_TEXT_LEN == 141

PriceScale == 1000
NaN == -1
EwmRunLen == 16

MIN_PRICE == MIN_PRICE_RUPEES * PriceScale
MAX_PRICE == MAX_PRICE_RUPEES * PriceScale

(***************************************************************************)
(* Natural numbers of any size: sequences of limbs below Base, least       *)
(* significant first, without leading zero limbs.                          *)
(***************************************************************************)
LimbBits == 15
Base == 32768
MantBits == 53

MaxOf(a, b) == IF a >= b THEN a ELSE b

Abs(x) == IF x >= 0 THEN x ELSE 0 - x

Pow2Table == <<1, 2, 4, 8, 16, 32, 64, 128, 256, 512, 1024, 2048, 4096, 8192,
               16384, 32768>>

\* 2^k for 0 <= k <= LimbBits.
Pow2(k) == Pow2Table[k + 1]

Limb(a, k) == IF k >= 1 /\ k <= Len(a) THEN a[k] ELSE 0

RECURSIVE BigTrim(_)
BigTrim(a) ==
    IF a = <<>> THEN a
    ELSE IF a[Len(a)] = 0 THEN BigTrim(SubSeq(a, 1, Len(a) - 1))
    ELSE a

RECURSIVE BigFromInt(_)
BigFromInt(n) == IF n = 0 THEN <<>> ELSE <<n % Base>> \o BigFromInt(n \div Base)

RECURSIVE BigToInt(_)
BigToInt(a) == IF a = <<>> THEN 0 ELSE a[1] + Base * BigToInt(Tail(a))

RECURSIVE BigAddFrom(_, _, _, _)
BigAddFrom(a, b, k, carry) ==
    IF k > Len(a) /\ k > Len(b) THEN (IF carry = 0 THEN <<>> ELSE <<carry>>)
    ELSE LET t == Limb(a, k) + Limb(b, k) + carry
         IN  <<t % Base>> \o BigAddFrom(a, b, k + 1, t \div Base)

BigAdd(a, b) ==
    IF a = <<>> THEN b ELSE IF b = <<>> THEN a ELSE BigAddFrom(a, b, 1, 0)

RECURSIVE BigSubFrom(_, _, _, _)
BigSubFrom(a, b, k, borrow) ==
    IF k > Len(a) THEN <<>>
    ELSE LET t == a[k] - Limb(b, k) - borrow
         IN  IF t < 0 THEN <<t + Base>> \o BigSubFrom(a, b, k + 1, 1)
             ELSE <<t>> \o BigSubFrom(a, b, k + 1, 0)

\* a - b for a >= b.
BigSub(a, b) == IF b = <<>> THEN a ELSE BigTrim(BigSubFrom(a, b, 1, 0))

RECURSIVE BigCmpFrom(_, _, _)
BigCmpFrom(a, b, k) ==
    IF k = 0 THEN 0
    ELSE IF a[k] > b[k] THEN 1
    ELSE IF a[k] < b[k] THEN -1
    ELSE BigCmpFrom(a, b, k - 1)

\* 1, 0, -1 as a > b, a = b, a < b.
BigCmp(a, b) ==
    IF Len(a) > Len(b) THEN 1
    ELSE IF Len(a) < Len(b) THEN -1
    ELSE BigCmpFrom(a, b, Len(a))

RECURSIVE BigMulSmallFrom(_, _, _, _)
BigMulSmallFrom(a, d, k, carry) ==
    IF k > Len(a) THEN BigFromInt(carry)
    ELSE LET t == a[k] * d + carry
         IN  <<t % Base>> \o BigMulSmallFrom(a, d, k + 1, t \div Base)

\* a * d for 0 <= d <= Base.
BigMulSmall(a, d) ==
    IF a = <<>> \/ d = 0 THEN <<>> ELSE BigMulSmallFrom(a, d, 1, 0)

\* a * Base^n
BigShiftLimbs(a, n) == IF a = <<>> THEN a ELSE [k \in 1..n |-> 0] \o a

RECURSIVE BigMulFrom(_, _, _)
BigMulFrom(a, b, k) ==
    IF k > Len(b) THEN <<>>
    ELSE BigAdd(BigMulSmall(a, b[k]), BigShiftLimbs(BigMulFrom(a, b, k + 1), 1))

BigMul(a, b) == IF a = <<>> \/ b = <<>> THEN <<>> ELSE BigMulFrom(a, b, 1)

\* a * 2^n
BigShl(a, n) ==
    IF a = <<>> \/ n = 0 THEN a
    ELSE LET r == n % LimbBits
             lo == Pow2(LimbBits - r)
         IN  BigShiftLimbs(
                 BigTrim([k \in 1..(Len(a) + 1) |->
                             (Limb(a, k) % lo) * Pow2(r) + Limb(a, k - 1) \div lo]),
                 n \div LimbBits)

\* a \div 2^n
BigShr(a, n) ==
    LET q == n \div LimbBits
        r == n % LimbBits
        hi == Pow2(LimbBits - r)
    IN  IF q >= Len(a) THEN <<>>
        ELSE BigTrim([k \in 1..(Len(a) - q) |->
                        Limb(a, k + q) \div Pow2(r)
                        + (Limb(a, k + q + 1) % Pow2(r)) * hi])

RECURSIVE LimbBitLen(_)
LimbBitLen(x) == IF x = 0 THEN 0 ELSE 1 + LimbBitLen(x \div 2)

BigBitLen(a) ==
    IF a = <<>> THEN 0 ELSE LimbBits * (Len(a) - 1) + LimbBitLen(a[Len(a)])

\* Bit n (from 0) of a.
BigBit(a, n) == (Limb(a, n \div LimbBits + 1) \div Pow2(n % LimbBits)) % 2

\* Bits 0..n-1 of a are zero.
BigLowZero(a, n) ==
    /\ \A k \in 1..(n \div LimbBits) : Limb(a, k) = 0
    /\ Limb(a, n \div LimbBits + 1) % Pow2(n % LimbBits) = 0

\* q, the integer part of a / 2^k, moved to the integer nearest to a / 2^k,
\* ties to even.
BigNearestEven(a, k, q) ==
    IF k > 0 /\ BigBit(a, k - 1) = 1
       /\ (~BigLowZero(a, k - 1) \/ Limb(q, 1) % 2 = 1)
    THEN BigAdd(q, <<1>>) ELSE q

\* a / 2^k rounded to the nearest integer, ties to even.
BigShrNearestEven(a, k) == BigNearestEven(a, k, BigShr(a, k))

\* The largest q with q * D <= r, counted up from the estimate q.
RECURSIVE DivFix(_, _, _)
DivFix(q, r, D) ==
    IF BigCmp(r, D) >= 0 THEN DivFix(q + 1, BigSub(r, D), D)
    ELSE [q |-> q, r |-> r]

\* One digit of a long division: (R * Base) \div D and the remainder, for
\* R < D and D with a top limb of at least Base / 2.
DivDigit(R, D) ==
    LET RB == BigShiftLimbs(R, 1)
        n == Len(D)
        t == Limb(RB, n + 1) * Base + Limb(RB, n)
        qe == t \div (D[n] + 1)
    IN  DivFix(qe, BigSub(RB, BigMulSmall(D, qe)), D)

\* n more digits of the quotient Q, from the remainder R (DivDigits), the
\* first of them being the digit d (DivMore); the digits that follow a
\* remainder of zero are zero.
RECURSIVE DivDigits(_, _, _, _)
RECURSIVE DivMore(_, _, _, _)
DivDigits(Q, R, D, n) ==
    IF n = 0 THEN [q |-> BigTrim(Q), r |-> R]
    ELSE IF R = <<>> THEN [q |-> BigShiftLimbs(BigTrim(Q), n), r |-> R]
    ELSE DivMore(Q, DivDigit(R, D), D, n)

DivMore(Q, d, D, n) == DivDigits(<<d.q>> \o Q, d.r, D, n - 1)

\* The quotient with n digits after the leading digit first.q.
DivLong(first, D, n) == DivDigits(<<first.q>>, first.r, D, n)

(***************************************************************************)
(* Python float (IEEE 754 binary64, round to nearest even): + - * /,       *)
(* comparison, float(int) and round(x, 2).  The values of the program are  *)
(* far from overflow and from the subnormal range.                         *)
(***************************************************************************)
Float(s, m, e) == [s |-> s, m |-> m, e |-> e]

FZero == Float(1, <<>>, 0)

\* float('nan')
FNaN == Float(0, <<>>, 0)

\* s * r * 2^e for a rounded significand r, which a carry may have made one
\* bit longer than MantBits.
Round53Carry(s, r, e) ==
    IF BigBitLen(r) > MantBits THEN Float(s, BigShr(r, 1), e + 1)
    ELSE Float(s, r, e)

\* The double nearest to s * N * 2^e for N of bl bits.
Round53Len(s, N, e, bl) ==
    IF bl <= MantBits
    THEN Float(s, BigShl(N, MantBits - bl), e - (MantBits - bl))
    ELSE Round53Carry(s, BigShrNearestEven(N, bl - MantBits), e + (bl - MantBits))

\* The double nearest to s * N * 2^e.
Round53(s, N, e) ==
    IF N = <<>> THEN Float(s, <<>>, 0) ELSE Round53Len(s, N, e, BigBitLen(N))

\* float(n) for an int n.
FFromInt(n) == Round53(IF n < 0 THEN -1 ELSE 1, BigFromInt(Abs(n)), 0)

FNeg(a) == [a EXCEPT !.s = 0 - a.s]

\* abs(a)
FAbs(a) == [a EXCEPT !.s = 1]

\* sa * Na * 2^e + sb * Nb * 2^e, c comparing Na with Nb.
FAddCompared(sa, Na, sb, Nb, e, c) ==
    IF sa = sb THEN Round53(sa, BigAdd(Na, Nb), e)
    ELSE IF c = 0 THEN FZero
    ELSE Round53(IF c > 0 THEN sa ELSE sb,
                 IF c > 0 THEN BigSub(Na, Nb) ELSE BigSub(Nb, Na), e)

FAddAligned(sa, Na, sb, Nb, e) ==
    FAddCompared(sa, Na, sb, Nb, e, BigCmp(Na, Nb))

\* a + b
FAdd(a, b) ==
    IF a.s = 0 \/ b.s = 0 THEN FNaN
    ELSE IF a.m = <<>> /\ b.m = <<>> THEN Float(IF a.s = b.s THEN a.s ELSE 1, <<>>, 0)
    ELSE IF a.m = <<>> THEN b
    ELSE IF b.m = <<>> THEN a
    ELSE LET e == IF a.e < b.e THEN a.e ELSE b.e
         IN  FAddAligned(a.s, BigShl(a.m, a.e - e), b.s, BigShl(b.m, b.e - e), e)

\* a - b
FSub(a, b) == FAdd(a, FNeg(b))

\* a * b
FMul(a, b) ==
    IF a.s = 0 \/ b.s = 0 THEN FNaN
    ELSE IF a.m = <<>> \/ b.m = <<>> THEN Float(a.s * b.s, <<>>, 0)
    ELSE Round53(a.s * b.s, BigMul(a.m, b.m), a.e + b.e)

\* s * d.q * 2^(e + 1), or a little more when a remainder d.r is left: one
\* more bit says so.
FDivRound(s, d, e) ==
    IF d.r = <<>> THEN Round53(s, d.q, e + 1)
    ELSE Round53(s, BigAdd(BigShl(d.q, 1), <<1>>), e)

\* a / b for b # 0: 61 bits of the quotient of the mantissas, and one more
\* that says whether a remainder is left.
FDiv(a, b) ==
    IF a.s = 0 \/ b.s = 0 THEN FNaN
    ELSE IF a.m = <<>> THEN Float(a.s * b.s, <<>>, 0)
    ELSE LET D == BigShl(b.m, 4 * LimbBits - MantBits)
         IN  FDivRound(a.s * b.s,
                       DivLong(DivFix(0, BigShl(a.m, 4 * LimbBits - MantBits), D),
                               D, 4),
                       a.e - b.e - (4 * LimbBits + 1))

\* a < b (False when either is NaN).
FLess(a, b) ==
    LET za == a.m = <<>>
        zb == b.m = <<>>
        mag == IF a.e # b.e THEN (IF a.e > b.e THEN 1 ELSE -1)
               ELSE BigCmp(a.m, b.m)
    IN  IF a.s = 0 \/ b.s = 0 THEN FALSE
        ELSE IF za /\ zb THEN FALSE
        ELSE IF za THEN b.s > 0
        ELSE IF zb THEN a.s < 0
        ELSE IF a.s # b.s THEN a.s < b.s
        ELSE IF a.s > 0 THEN mag < 0 ELSE mag > 0

\* a == b
FEq(a, b) == IF a.m = <<>> /\ b.m = <<>> THEN a.s # 0 /\ b.s # 0 ELSE a = b

\* round(x, 2) as sign and hundredths [s, h]: the decimal with two places
\* nearest to the binary value of x, ties to even; the float returned is the
\* one nearest to s * h / 100.
Round2(x) ==
    LET N == BigMulSmall(x.m, 100)
    IN  [s |-> x.s,
         h |-> IF x.e >= 0 THEN BigToInt(BigShl(N, x.e))
               ELSE BigToInt(BigShrNearestEven(N, 0 - x.e))]

\* The float a result of round(x, 2) is.
FOfDec2(d) == [FDiv(FFromInt(d.h), FFromInt(100)) EXCEPT !.s = d.s]

\* A result of round(x, 2) as a signed number of hundredths.
Hundredths(d) == d.s * d.h

\* The result of round(x, 2) is -0.0.
NegZero(d) == d.s < 0 /\ d.h = 0

\* The float held for a price quoted as p mills.
FOfMills(p) == FDiv(FFromInt(p), FFromInt(PriceScale))

\* round(x, 2) of a price of p mills.
Round2Price(p) == Round2(FOfMills(p))

(***************************************************************************)
(* yf.download: the frame a descriptor stands for.                         *)
(* A descriptor is "raise" (the fetch throws), "none" (no frame) or a      *)
(* frame of d.rows daily rows: d.today last, d.prev before it, d.base      *)
(* elsewhere, one older row at d.oldAt rows before today with high         *)
(* d.oldHigh, and d.nanCount rows holding a missing value (the oldest      *)
(* rows, or the rows just before today when d.nanRecent).                  *)
(***************************************************************************)
RowBar(d, k) ==
    IF k = d.rows THEN d.today
    ELSE IF k = d.rows - 1 THEN d.prev
    ELSE IF d.oldAt > 0 /\ k = d.rows - d.oldAt
         THEN [d.base EXCEPT !.High = d.oldHigh]
    ELSE d.base

RowHasNaN(d, k) ==
    IF d.nanRecent
    THEN k >= d.rows - d.nanCount /\ k <= d.rows - 1
    ELSE k <= d.nanCount

Download(d) ==
    [k \in 1..d.rows |-> [bar |-> RowBar(d, k), nan |-> RowHasNaN(d, k)]]

\* df.dropna()
DropNa(df) == SelectSeq(df, LAMBDA r : ~r.nan)

\* df.iloc[-(k + 1):-1]: the (up to) k rows before the last one.
ILocBeforeLast(df, k) == SubSeq(df, MaxOf(1, Len(df) - k), Len(df) - 1)

\* Series.max() over column High of rows lo..hi (lo <= hi).
RECURSIVE HighMaxRange(_, _, _)
HighMaxRange(rows, lo, hi) ==
    IF lo = hi THEN rows[lo].bar.High
    ELSE LET mid == (lo + hi) \div 2
         IN  MaxOf(HighMaxRange(rows, lo, mid), HighMaxRange(rows, mid + 1, hi))

\* Series.max() over column High; NaN for an empty selection.
HighMax(rows) == IF Len(rows) = 0 THEN NaN ELSE HighMaxRange(rows, 1, Len(rows))

\* Sum of column Volume over rows lo..hi.
RECURSIVE VolumeSumRange(_, _, _)
VolumeSumRange(rows, lo, hi) ==
    IF lo > hi THEN 0
    ELSE IF lo = hi THEN rows[lo].bar.Volume
    ELSE LET mid == (lo + hi) \div 2
         IN  VolumeSumRange(rows, lo, mid) + VolumeSumRange(rows, mid + 1, hi)

\* The numerator of Series.mean() over column Volume.
VolumeSum(rows) == VolumeSumRange(rows, 1, Len(rows))

\* ewm(span=EMA_PERIOD, adjust=False): com = (span - 1) / 2,
\* alpha = 1 / (1 + com), old_wt_factor = 1 - alpha, new_wt = alpha.
EwmCom == FDiv(FFromInt(EMA_PERIOD - 1), FFromInt(2))

EwmAlpha == FDiv(FFromInt(1), FAdd(FFromInt(1), EwmCom))

EwmOldWtFactor == FSub(FFromInt(1), EwmAlpha)

\* One step of the mean: old_wt = 1. * old_wt_factor; the average stays when
\* the observation equals it, else it becomes
\* (old_wt * weighted + new_wt * cur) / (old_wt + new_wt).
EwmMean(weighted, cur, old_wt, new_wt) ==
    FDiv(FAdd(FMul(old_wt, weighted), FMul(new_wt, cur)), FAdd(old_wt, new_wt))

EwmStep(weighted, cur) ==
    IF FEq(weighted, cur) THEN weighted
    ELSE EwmMean(weighted, cur, FMul(FFromInt(1), EwmOldWtFactor), EwmAlpha)

\* The average after the observation cur, and whether it equals cur.
EwmObserved(weighted, cur) == [weighted |-> weighted, same |-> FEq(weighted, cur)]

EwmState(weighted, cur) == EwmObserved(EwmStep(weighted, cur), cur)

\* The mean over rows k..last of column Close, from st.weighted; st.same says
\* that st.weighted is the float of the close of row k - 1, so that an equal
\* close in row k is an equal observation.
RECURSIVE EwmRun(_, _, _, _)
EwmRun(rows, k, last, st) ==
    IF k > last THEN st
    ELSE IF st.same /\ rows[k].bar.Close = rows[k - 1].bar.Close
    THEN EwmRun(rows, k + 1, last, st)
    ELSE EwmRun(rows, k + 1, last,
                EwmState(st.weighted, FOfMills(rows[k].bar.Close)))

\* The first row whose close differs from the close of row 1 (Len(rows) + 1
\* when there is none): the average is the first close up to it.
FirstChange(rows) ==
    LET changed == {k \in 2..Len(rows) : rows[k].bar.Close # rows[1].bar.Close}
    IN  IF changed = {} THEN Len(rows) + 1
        ELSE CHOOSE k \in changed : \A j \in changed : k <= j

\* The same over rows k..Len(rows), taken in runs of EwmRunLen rows.
RECURSIVE EwmFrom(_, _, _)
EwmFrom(rows, k, st) ==
    IF k > Len(rows) THEN st
    ELSE LET last == IF k + EwmRunLen - 1 < Len(rows)
                     THEN k + EwmRunLen - 1 ELSE Len(rows)
         IN  IF st.same /\ \A j \in k..last :
                               rows[j].bar.Close = rows[k - 1].bar.Close
             THEN EwmFrom(rows, last + 1, st)
             ELSE EwmFrom(rows, last + 1, EwmRun(rows, k, last, st))

\* df["Close"].ewm(span=EMA_PERIOD, adjust=False).mean().iloc[-1]; the first
\* average is the first close.
EwmLast(rows) ==
    EwmFrom(rows, FirstChange(rows),
            [weighted |-> FOfMills(rows[1].bar.Close), same |-> TRUE]).weighted

(***************************************************************************)
(* check_stock                                                             *)
(* FOfMills is strictly increasing, so two prices held as floats compare   *)
(* as their mills do, and the largest float of a column is the float of    *)
(* the largest mills.                                                      *)
(***************************************************************************)
\* float(df["Volume"].iloc[-VOL_MA_PERIOD - 1:-1].mean()) of `cnt` volumes
\* summing to `sum`: NaN for an empty selection.
AvgVolume(sum, cnt) ==
    IF cnt = 0 THEN FNaN ELSE FDiv(FFromInt(sum), FFromInt(cnt))

\* avg_volume > 0
AvgVolumePositive(sum, cnt) == FLess(FZero, AvgVolume(sum, cnt))

\* today_volume / avg_volume if avg_volume > 0 else 0
VolRatio(today_volume, sum, cnt) ==
    IF AvgVolumePositive(sum, cnt)
    THEN FDiv(FFromInt(today_volume), AvgVolume(sum, cnt))
    ELSE FZero

\* round(vol_ratio, 2) in hundredths.
VolRatio2(today_volume, sum, cnt) ==
    Hundredths(Round2(VolRatio(today_volume, sum, cnt)))

PriceBreakout(today_high, week52_high) ==
    week52_high # NaN /\ today_high > week52_high

GreenCandle(today) == today.Close > today.Open

\* today_close > ema21
AboveEma(today_close, ema21) == FLess(ema21, FOfMills(today_close))

\* A variant that also requires the volume ratio to reach VOL_MULTIPLIER.
EmitConditionVolGated(price_breakout, green_candle, above_ema, vol_ratio) ==
    price_breakout /\ green_candle /\ above_ema /\ vol_ratio >= VOL_MULTIPLIER

\* if price_breakout and green_candle and above_ema
EmitCondition(price_breakout, green_candle, above_ema, vol_ratio) ==
    price_breakout /\ green_candle /\ above_ema

\* A variant that looks at the bars before today only.
AllTimeHighBeforeToday(df) == HighMax(SubSeq(df, 1, Len(df) - 1))

\* float(df["High"].max())
AllTimeHigh(df) == HighMax(df)

\* The literal 0.01.
OnePercent == FDiv(FFromInt(1), FFromInt(100))

\* A variant whose band includes the boundary.
IsAthInclusive(week52_high, all_time_high) ==
    LET w == FOfMills(week52_high)
    IN  ~FLess(FMul(OnePercent, w), FAbs(FSub(w, FOfMills(all_time_high))))

\* abs(week52_high - all_time_high) < 0.01 * week52_high
IsAth(week52_high, all_time_high) ==
    LET w == FOfMills(week52_high)
    IN  FLess(FAbs(FSub(w, FOfMills(all_time_high))), FMul(OnePercent, w))

BreakoutType(is_ath) == IF is_ath THEN "ATH" ELSE "52WH"

\* (today_close - sl_price) / today_close * 100
SlPctRaw(today_close, sl_price) ==
    LET c == FOfMills(today_close)
    IN  FMul(FDiv(FSub(c, FOfMills(sl_price)), c), FFromInt(100))

\* round((today_close - sl_price) / today_close * 100, 2)
SlPct(today_close, sl_price) == Round2(SlPctRaw(today_close, sl_price))

\* round(today_close + 2 * (today_close - sl_price), 2)
TargetPrice(today_close, sl_price) ==
    LET c == FOfMills(today_close)
    IN  Round2(FAdd(c, FMul(FFromInt(2), FSub(c, FOfMills(sl_price)))))

\* A variant that doubles the unrounded stop-loss percentage.
TargetPctUnrounded(sl_pct, today_close, sl_price) ==
    Round2(FMul(SlPctRaw(today_close, sl_price), FFromInt(2)))

\* round(sl_pct * 2, 2), sl_pct being the rounded value.
TargetPct(sl_pct, today_close, sl_price) ==
    Round2(FMul(FOfDec2(sl_pct), FFromInt(2)))

\* df.iloc[-(LOOKBACK_DAYS + 1):-1]
PrevBars(df) == ILocBeforeLast(df, LOOKBACK_DAYS)

\* What a call that returns None before computing leaves behind.
Returned(symbol, path, raw, used) ==
    [symbol |-> symbol, path |-> path, ret |-> <<>>, raw |-> raw, used |-> used,
     today |-> [Open |-> 0, High |-> 0, Low |-> 0, Close |-> 0, Volume |-> 0],
     week52_high |-> NaN, vol_sum |-> 0, vol_cnt |-> 0, ema21 |-> FNaN,
     price_breakout |-> FALSE, green_candle |-> FALSE, above_ema |-> FALSE,
     all_time_high |-> NaN]

\* The dict check_stock returns: every number in hundredths, neg_zero naming
\* the fields that are -0.0, vol_ratio_int saying that vol_ratio is the int 0.
SignalDict(symbol, today, week52_high, all_time_high, vol_sum, vol_cnt, sl_price, sl_pct, target_price, target_pct, ema21) ==
    [symbol |-> symbol,
     close |-> Hundredths(Round2Price(today.Close)),
     week52_high |-> Hundredths(Round2Price(week52_high)),
     vol_ratio |-> VolRatio2(today.Volume, vol_sum, vol_cnt),
     breakout_type |-> BreakoutType(IsAth(week52_high, all_time_high)),
     sl_price |-> Hundredths(Round2Price(sl_price)),
     sl_pct |-> Hundredths(sl_pct),
     target_price |-> Hundredths(target_price),
     target_pct |-> Hundredths(target_pct),
     ema21 |-> Hundredths(ema21),
     neg_zero |-> (IF NegZero(sl_pct) THEN {"sl_pct"} ELSE {})
                  \cup (IF NegZero(target_price) THEN {"target_price"} ELSE {})
                  \cup (IF NegZero(target_pct) THEN {"target_pct"} ELSE {})
                  \cup (IF NegZero(ema21) THEN {"ema21"} ELSE {}),
     vol_ratio_int |-> ~AvgVolumePositive(vol_sum, vol_cnt)]

\* Lines 283-298: the risk levels, then the dict, the EMA rounded.
Signal(symbol, today, week52_high, all_time_high, ema21, vol_sum, vol_cnt) ==
    LET sl_price == today.Low
        sl_pct == SlPct(today.Close, sl_price)
    IN  SignalDict(symbol, today, week52_high, all_time_high, vol_sum, vol_cnt,
                   sl_price, sl_pct, TargetPrice(today.Close, sl_price),
                   TargetPct(sl_pct, today.Close, sl_price), Round2(ema21))

\* Lines 279-301: the dict, or None, once the conditions are known.
Decided(symbol, d, df, today, week52_high, vol_sum, vol_cnt, ema21, price_breakout, green_candle, above_ema, emit) ==
    [symbol |-> symbol,
     path |-> IF emit THEN "signal" ELSE "no_signal",
     ret |-> IF emit
             THEN <<Signal(symbol, today, week52_high, AllTimeHigh(df),
                           ema21, vol_sum, vol_cnt)>>
             ELSE <<>>,
     raw |-> d.rows, used |-> Len(df), today |-> today,
     week52_high |-> week52_high, vol_sum |-> vol_sum,
     vol_cnt |-> vol_cnt, ema21 |-> ema21,
     price_breakout |-> price_breakout,
     green_candle |-> green_candle, above_ema |-> above_ema,
     all_time_high |-> IF emit THEN AllTimeHigh(df) ELSE NaN]

\* Lines 265-279: the conditions, once the indicators are known.
Conditions(symbol, d, df, today, week52_high, vol_sum, vol_cnt, ema21, price_breakout, green_candle, above_ema) ==
    Decided(symbol, d, df, today, week52_high, vol_sum, vol_cnt, ema21,
            price_breakout, green_candle, above_ema,
            EmitCondition(price_breakout, green_candle, above_ema,
                          VolRatio2(today.Volume, vol_sum, vol_cnt)))

Computed(symbol, d, df, today, week52_high, vol_sum, vol_cnt, ema21) ==
    Conditions(symbol, d, df, today, week52_high, vol_sum, vol_cnt, ema21,
               PriceBreakout(today.High, week52_high), GreenCandle(today),
               AboveEma(today.Close, ema21))

\* The locals of check_stock(symbol) when yf.download yields d; ret is <<>>
\* for None and <<signal>> for a returned dict.
check_stock(symbol, d) ==
    IF d.kind = "raise" THEN Returned(symbol, "exception", 0, 0)
    ELSE IF d.kind = "none" THEN Returned(symbol, "short", 0, 0)
    ELSE IF d.rows < LOOKBACK_DAYS + WARMUP_ROWS THEN Returned(symbol, "short", d.rows, 0)
    ELSE
    LET df == DropNa(Download(d))
    IN  IF Len(df) = 0 THEN Returned(symbol, "exception", d.rows, 0)
        ELSE
        LET today == df[Len(df)].bar
            prev_bars == PrevBars(df)
        IN  IF today.Close < MIN_PRICE \/ today.Close > MAX_PRICE
            THEN [Returned(symbol, "price", d.rows, Len(df)) EXCEPT !.today = today]
            ELSE IF today.Volume < MIN_VOLUME
            THEN [Returned(symbol, "volume", d.rows, Len(df)) EXCEPT !.today = today]
            ELSE
            LET vol_rows == ILocBeforeLast(df, VOL_MA_PERIOD)
            IN  Computed(symbol, d, df, today, HighMax(prev_bars),
                         VolumeSum(vol_rows), Len(vol_rows), EwmLast(df))

(***************************************************************************)
(* Inputs: the frames the data source may yield.                           *)
(***************************************************************************)
ExtraRows == 2
NanGap == 6

Bar(o, h, l, c, v) == [Open |-> o, High |-> h, Low |-> l, Close |-> c, Volume |-> v]

QuietBar == Bar(99000, 100000, 98500, 99000, 100000)
FirmBar == Bar(99500, 100000, 99000, 100000, 100000)
IdleBar == Bar(99000, 100000, 98500, 99000, 0)
HotBar == Bar(100000, 102000, 99000, 101200, 200000)

\* (High, Close) of today's bar.
TodayHighClose ==
    { <<100000, 99500>>, <<100000, 100000>>, <<100500, 98500>>,
      <<100500, 99500>>, <<100500, 100000>>, <<100500, 100500>>,
      <<100900, 100500>>, <<101000, 100500>>, <<102000, 100500>>,
      <<103000, 100100>>, <<103000, 101500>>, <<103020, 101500>> }

\* Bars on thin and on busy volume; a thin breakout bar; bars with a low of
\* three decimals; bars whose stop-loss percentage (5.975), whose target and
\* EMA (106.775, 99.175) and whose volume ratio (1.015) lie halfway between
\* two hundredths; bars whose low lies above the close; bars whose stop-loss
\* percentage (4.375) and whose target (290.725) are a hair off halfway and on
\* the other side of it once computed in floats; a bar above MAX_PRICE.
TodayBars ==
    { Bar(99000, hc[1], 98000, hc[2], v) :
        hc \in TodayHighClose, v \in {60000, 200000} }
    \cup { Bar(99000, 100500, 98000, 100500, 40000),
           Bar(99000, 100500, 98004, 100500, 200000),
           Bar(99000, 102000, 98004, 100500, 60000),
           Bar(99000, 100500, 94025, 100000, 60000),
           Bar(99000, 101000, 98000, 100925, 200000),
           Bar(99000, 100500, 98000, 100500, 101500),
           Bar(99000, 101000, 100504, 100500, 60000),
           Bar(99000, 101000, 101000, 100500, 60000),
           Bar(99000, 103000, 98226, 102720, 60000),
           Bar(99000, 244000, 219496, 243239, 60000),
           Bar(2090000, 2110000, 2080000, 2100500, 200000) }

\* (oldAt, oldHigh): no older peak, a peak inside the window, peaks just
\* outside it.
OldPeaks ==
    { <<0, 0>>, <<LOOKBACK_DAYS, 102000>>, <<LOOKBACK_DAYS + 1, 102000>> }

MaxRows == LOOKBACK_DAYS + WARMUP_ROWS + ExtraRows

RowCounts == (LOOKBACK_DAYS + WARMUP_ROWS - 1) .. MaxRows

\* (nanCount, nanRecent): no gap, the row before today, the NanGap oldest
\* rows, every row.
NanPatterns ==
    { <<0, FALSE>>, <<1, TRUE>>, <<NanGap, FALSE>>, <<MaxRows, FALSE>> }

\* (base, prev)
Histories ==
    { <<QuietBar, QuietBar>>, <<QuietBar, HotBar>>, <<FirmBar, FirmBar>>,
      <<FirmBar, HotBar>>, <<IdleBar, IdleBar>> }

Frame(rows, nan, base, prev, old, today) ==
    [kind |-> "frame", rows |-> rows, nanCount |-> nan[1], nanRecent |-> nan[2],
     base |-> base, prev |-> prev, oldAt |-> old[1], oldHigh |-> old[2],
     today |-> today]

FetchRaises == [Frame(0, <<0, FALSE>>, QuietBar, QuietBar, <<0, 0>>, QuietBar)
                    EXCEPT !.kind = "raise"]

FetchNone == [FetchRaises EXCEPT !.kind = "none"]

EvalFrames ==
    { Frame(rows, nan, h[1], h[2], old, today) :
        rows \in RowCounts, nan \in NanPatterns, h \in Histories,
        old \in OldPeaks, today \in TodayBars }

(***************************************************************************)
(* run_scanner: the scan loop                                              *)
(***************************************************************************)
\* A loop that an exception inside check_stock leaves.
AfterCheckUncaught(ev, idx) ==
    IF ev.path = "exception" THEN "crashed"
    ELSE IF idx = total THEN "present" ELSE "scan"

\* Where run_scanner stands after check_stock returned for symbol number idx:
\* check_stock catches every Exception itself, so the loop goes on.
AfterCheck(ev, idx) == IF idx = total THEN "present" ELSE "scan"

\* `result = check_stock(symbol)` and `if result: results.append(result)`
\* for symbol number idx.
Collect(ev, idx) ==
    /\ evals' = Append(evals, ev)
    /\ results' = results \o ev.ret
    /\ pc' = AfterCheck(ev, idx)

\* One iteration of `for i, symbol in enumerate(stocks, 1)`.
ScanSymbol ==
    /\ pc = "scan"
    /\ i < total
    /\ Collect(check_stock(i + 1, market[i + 1]), i + 1)
    /\ i' = i + 1
    /\ UNCHANGED <<market, creds, symLen, total, batchAt, calls, posts, store, lastIngest>>

(***************************************************************************)
(* run_scanner: presentation, and send_telegram                            *)
(***************************************************************************)
\* Where `x` goes in a list already sorted by vol_ratio descending, when an
\* equal key lets the later element overtake the earlier ones.
RECURSIVE InsertOvertaking(_, _)
InsertOvertaking(sorted, x) ==
    IF sorted = <<>> THEN <<x>>
    ELSE IF Head(sorted).vol_ratio > x.vol_ratio
         THEN <<Head(sorted)>> \o InsertOvertaking(Tail(sorted), x)
         ELSE <<x>> \o sorted

\* Where `x` goes in a list already sorted by vol_ratio descending: after
\* every element whose key is not smaller (list.sort is stable, and
\* reverse=True keeps the order of equal keys).
RECURSIVE InsertByVolRatio(_, _)
InsertByVolRatio(sorted, x) ==
    IF sorted = <<>> THEN <<x>>
    ELSE IF Head(sorted).vol_ratio >= x.vol_ratio
         THEN <<Head(sorted)>> \o InsertByVolRatio(Tail(sorted), x)
         ELSE <<x>> \o sorted

\* results.sort(key=lambda x: x["vol_ratio"], reverse=True)
RECURSIVE SortByVolRatio(_)
SortByVolRatio(list) ==
    IF list = <<>> THEN <<>>
    ELSE InsertByVolRatio(SortByVolRatio(SubSeq(list, 1, Len(list) - 1)),
                          list[Len(list)])

\* len(str(n)) for an int n >= 0.
RECURSIVE Digits(_)
Digits(n) == IF n < 10 THEN 1 ELSE 1 + Digits(n \div 10)

\* len(str(x)) for a float x rounded to 2 decimals and not -0.0, given in
\* hundredths.
FloatStrLen(h) ==
    (IF h < 0 THEN 1 ELSE 0) + Digits(Abs(h) \div 100) + 1
    + (IF Abs(h) % 10 = 0 THEN 1 ELSE 2)

\* len(str(r["vol_ratio"])): the int 0 when avg_volume was not positive.
VolRatioStrLen(r) == IF r.vol_ratio_int THEN 1 ELSE FloatStrLen(r.vol_ratio)

BreakoutTypeLen(t) == IF t = "ATH" THEN 5 ELSE 6

\* Length of the text run_scanner appends to `lines` for result r.
EntryLen(r) ==
    ENTRY_TEXT_LEN + symLen + BreakoutTypeLen(r.breakout_type)
    + FloatStrLen(r.close) + FloatStrLen(r.week52_high) + VolRatioStrLen(r)
    + FloatStrLen(r.ema21) + FloatStrLen(r.sl_price) + FloatStrLen(r.sl_pct)
    + FloatStrLen(r.target_price) + FloatStrLen(r.target_pct)
    + Cardinality(r.neg_zero)

RECURSIVE EntriesLen(_)
EntriesLen(batch) ==
    IF batch = <<>> THEN 0 ELSE EntryLen(Head(batch)) + EntriesLen(Tail(batch))

\* len("\n".join(lines)) for a non-empty batch.
BatchLen(batch) == EntriesLen(batch) + Len(batch) - 1

EmptyLen == EMPTY_TEXT_LEN + Digits(total)

HeaderLen(n) == HEADER_TEXT_LEN + Digits(n) + Digits(total)

\* len([message[i:i+4000] for i in range(0, len(message), 4000)])
ChunkCount(len) == (len + CHUNK_SIZE - 1) \div CHUNK_SIZE

\* What a requests.post call may do: answer 200, answer another status, raise.
PostOutcomes == {"ok", "http_error", "exception"}

\* A chunk loop that an exception in requests.post leaves.
ChunksAttemptedUntilRaise(outcomes) ==
    IF \E c \in DOMAIN outcomes : outcomes[c] = "exception"
    THEN CHOOSE c \in DOMAIN outcomes :
             /\ outcomes[c] = "exception"
             /\ \A b \in 1..(c - 1) : outcomes[b] # "exception"
    ELSE Len(outcomes)

\* How many chunks `for chunk in chunks` posts: try/except inside the loop
\* swallows every failure, so all of them.
ChunksAttempted(outcomes) == Len(outcomes)

\* send_telegram(message) for a message of `len` characters whose posts end
\* as `outcomes` say: the calls and posts logs afterwards.
SendTelegram(kind, body, len, outcomes) ==
    /\ calls' = Append(calls, [msg |-> kind, body |-> body, len |-> len])
    /\ posts' =
         IF ~creds THEN posts
         ELSE posts \o [c \in 1..ChunksAttempted(outcomes) |->
                          [call |-> Len(calls) + 1, chunk |-> c,
                           outcome |-> outcomes[c]]]

OutcomeChoices(len) == [1..ChunkCount(len) -> PostOutcomes]

\* After the loop, no result: the one "no breakouts" message.
PresentNothing ==
    /\ pc = "present"
    /\ results = <<>>
    /\ \E outcomes \in OutcomeChoices(EmptyLen) :
           SendTelegram("empty", <<>>, EmptyLen, outcomes)
    /\ pc' = "done"
    /\ UNCHANGED <<market, creds, symLen, total, i, evals, results, batchAt,
                   store, lastIngest>>

\* After the loop, some result: sort, then the header message.
PresentHeader ==
    /\ pc = "present"
    /\ results # <<>>
    /\ results' = SortByVolRatio(results)
    /\ \E outcomes \in OutcomeChoices(HeaderLen(Len(results))) :
           SendTelegram("header", <<>>, HeaderLen(Len(results)), outcomes)
    /\ batchAt' = 0
    /\ pc' = "batches"
    /\ UNCHANGED <<market, creds, symLen, total, i, evals, store, lastIngest>>

\* One iteration of `for batch_start in range(0, len(results), 10)`.
SendBatch ==
    /\ pc = "batches"
    /\ batchAt < Len(results)
    /\ LET last == IF batchAt + BATCH_SIZE < Len(results)
                   THEN batchAt + BATCH_SIZE ELSE Len(results)
           batch == SubSeq(results, batchAt + 1, last)
       IN  \E outcomes \in OutcomeChoices(BatchLen(batch)) :
               SendTelegram("batch", batch, BatchLen(batch), outcomes)
    /\ batchAt' = batchAt + BATCH_SIZE
    /\ UNCHANGED <<market, creds, symLen, total, pc, i, evals, results,
                   store, lastIngest>>

\* After the last batch: the footer message.
SendFooter ==
    /\ pc = "batches"
    /\ batchAt >= Len(results)
    /\ \E outcomes \in OutcomeChoices(FOOTER_TEXT_LEN) :
           SendTelegram("footer", <<>>, FOOTER_TEXT_LEN, outcomes)
    /\ pc' = "done"
    /\ UNCHANGED <<market, creds, symLen, total, i, evals, results, batchAt,
                   store, lastIngest>>

(***************************************************************************)
(* A whole run over a universe of NumStocks symbols                        *)
(***************************************************************************)
NumStocks == 11
SymLenShort == 8
SymLenLong == 300

\* 258 rows, every one with a missing value: dropna leaves nothing.
AllNaNFrame ==
    Frame(MaxRows - 1, <<MaxRows, FALSE>>, QuietBar, QuietBar, <<0, 0>>,
          Bar(99000, 100500, 98000, 100500, 200000))

\* A breakout on volume below the 30-day average (vol_ratio 0.6).
ThinSignalFrame ==
    Frame(MaxRows - 1, <<0, FALSE>>, QuietBar, QuietBar, <<0, 0>>,
          Bar(99000, 100500, 98000, 100500, 60000))

\* A breakout on twice the 30-day average volume (vol_ratio 2.0).
BusySignalFrame ==
    Frame(MaxRows - 1, <<0, FALSE>>, QuietBar, QuietBar, <<0, 0>>,
          Bar(99000, 102000, 98004, 100500, 200000))

ScanFrames == {FetchRaises, AllNaNFrame, ThinSignalFrame, BusySignalFrame}

Init ==
    /\ total = NumStocks
    /\ market \in { [s \in 1..NumStocks |->
                        IF s % 3 = 1 THEN a ELSE IF s % 3 = 2 THEN b ELSE c] :
                    a \in ScanFrames, b \in ScanFrames, c \in ScanFrames }
    /\ creds \in BOOLEAN
    /\ symLen \in {SymLenShort, SymLenLong}
    /\ pc = "scan"
    /\ i = 0
    /\ evals = <<>>
    /\ results = <<>>
    /\ batchAt = 0
    /\ calls = <<>>
    /\ posts = <<>>
    /\ store = <<>>
    /\ lastIngest = <<>>

Next ==
    \/ ScanSymbol
    \/ PresentNothing
    \/ PresentHeader
    \/ SendBatch
    \/ SendFooter

Spec == Init /\ [][Next]_vars

(***************************************************************************)
(* Evaluation of one symbol over every frame of EvalFrames                 *)
(***************************************************************************)
InitEval ==
    /\ total = 1
    /\ market \in [1..1 -> EvalFrames \cup {FetchRaises, FetchNone}]
    /\ creds = TRUE
    /\ symLen = SymLenShort
    /\ pc = "scan"
    /\ i = 0
    /\ evals = <<>>
    /\ results = <<>>
    /\ batchAt = 0
    /\ calls = <<>>
    /\ posts = <<>>
    /\ store = <<>>
    /\ lastIngest = <<>>

NextEval == ScanSymbol

SpecEval == InitEval /\ [][NextEval]_vars

(***************************************************************************)
(* History Store (design document, section 4.1)                            *)
(***************************************************************************)
MaxDate == 2
MaxBatch == 2

StoreSymbols == {1, 2}

DayBar(date, o, h, l, c, v) ==
    [date |-> date, open |-> o, high |-> h, low |-> l, close |-> c, volume |-> v]

\* A valid bar per date, a second valid bar for the first date, and a bar
\* whose low lies above its close.
StoreBars ==
    { DayBar(dt, 10, 12, 9, 10, 5) : dt \in 1..MaxDate }
    \cup { DayBar(1, 10, 12, 9, 11, 5), DayBar(1, 10, 12, 11, 10, 5) }

RECURSIVE SeqsUpTo(_, _)
SeqsUpTo(S, n) ==
    IF n = 0 THEN { <<>> }
    ELSE SeqsUpTo(S, n - 1)
         \cup { Append(q, x) : q \in { r \in SeqsUpTo(S, n - 1) : Len(r) = n - 1 }, x \in S }

Batches == SeqsUpTo(StoreBars, MaxBatch)

\* The Bar invariant: low <= {open, close} <= high, volume >= 0.
ValidBar(b) ==
    /\ b.low <= b.open /\ b.low <= b.close
    /\ b.open <= b.high /\ b.close <= b.high
    /\ b.volume >= 0

\* An ingestion that keeps the stored Bar when the date is already present.
IngestBarKeepFirst(series, b) ==
    IF \E k \in DOMAIN series : series[k].date = b.date THEN series
    ELSE SelectSeq(series, LAMBDA x : x.date < b.date) \o <<b>>
         \o SelectSeq(series, LAMBDA x : x.date > b.date)

\* One incoming Bar: replaces the stored Bar of its date, else is inserted
\* in date order.
IngestBar(series, b) ==
    SelectSeq(series, LAMBDA x : x.date < b.date) \o <<b>>
    \o SelectSeq(series, LAMBDA x : x.date > b.date)

\* ingest(symbol, bars) on one Series: an invalid Bar is rejected and the
\* rest of the batch is still applied.
RECURSIVE IngestAll(_, _)
IngestAll(series, bars) ==
    IF bars = <<>> THEN series
    ELSE IngestAll(IF ValidBar(Head(bars)) THEN IngestBar(series, Head(bars))
                   ELSE series,
                   Tail(bars))

Ingest ==
    /\ \E sym \in StoreSymbols, bars \in Batches :
           /\ store' = [store EXCEPT ![sym] = IngestAll(store[sym], bars)]
           /\ lastIngest' = <<[symbol |-> sym, bars |-> bars]>>
    /\ UNCHANGED scanVars

InitStore ==
    /\ total = 0
    /\ market = <<>>
    /\ creds = TRUE
    /\ symLen = SymLenShort
    /\ pc = "done"
    /\ i = 0
    /\ evals = <<>>
    /\ results = <<>>
    /\ batchAt = 0
    /\ calls = <<>>
    /\ posts = <<>>
    /\ store = [sym \in StoreSymbols |-> <<>>]
    /\ lastIngest = <<>>

NextStore == Ingest

SpecStore == InitStore /\ [][NextStore]_vars

(***************************************************************************)
(* Properties                                                              *)
(***************************************************************************)
\* The series check_stock works on for the k-th scanned symbol.
UsedSeries(k) == DropNa(Download(market[k]))

\* The k-th call got a frame that passed the length check and is not empty.
Evaluated(k) ==
    /\ market[k].kind = "frame"
    /\ market[k].rows >= LOOKBACK_DAYS + WARMUP_ROWS
    /\ Len(UsedSeries(k)) > 0

\* Today's bar of the k-th call passes the price and the volume filter.
PassesFilter(k) ==
    LET df == UsedSeries(k)
        today == df[Len(df)].bar
    IN  /\ today.Close >= MIN_PRICE /\ today.Close <= MAX_PRICE
        /\ today.Volume >= MIN_VOLUME

\* v (an integer) is num/den rounded to the nearest integer.
IsNearest(v, num, den) == 2 * Abs(v * den - num) <= den

\* Floats taken as the real numbers they are, s * m * 2^e with m of any
\* size: a + b, n * a for an integer n, a * 2^n, a < b and a <= b, exactly.
ExactAdd(a, b) ==
    IF a.m = <<>> THEN b
    ELSE IF b.m = <<>> THEN a
    ELSE LET e == IF a.e < b.e THEN a.e ELSE b.e
             Na == BigShl(a.m, a.e - e)
             Nb == BigShl(b.m, b.e - e)
             c == BigCmp(Na, Nb)
         IN  IF a.s = b.s THEN Float(a.s, BigAdd(Na, Nb), e)
             ELSE IF c = 0 THEN FZero
             ELSE IF c > 0 THEN Float(a.s, BigSub(Na, Nb), e)
             ELSE Float(b.s, BigSub(Nb, Na), e)

ExactSub(a, b) == ExactAdd(a, FNeg(b))

ExactTimes(n, a) ==
    IF n = 0 \/ a.m = <<>> THEN FZero
    ELSE Float(IF n < 0 THEN 0 - a.s ELSE a.s, BigMul(a.m, BigFromInt(Abs(n))), a.e)

ExactShift(a, n) == IF a.m = <<>> THEN a ELSE [a EXCEPT !.e = a.e + n]

ExactLess(a, b) == LET d == ExactSub(b, a) IN d.m # <<>> /\ d.s > 0

ExactLeq(a, b) == LET d == ExactSub(b, a) IN d.m = <<>> \/ d.s > 0

\* The error a chain of float operations may add to a number of hundredths
\* before it is rounded, as a power of two.
SlackBits == 2 * LimbBits

\* h (hundredths) is num / den (den > 0) rounded to the nearest integer, the
\* quotient being known up to 2^-SlackBits:
\* 2 * |h * den - num| <= den * (1 + 2^-SlackBits).
IsRounded(h, num, den) ==
    ExactLeq(ExactShift(FAbs(ExactSub(ExactTimes(h, den), num)), SlackBits + 1),
             ExactAdd(ExactShift(den, SlackBits), den))

\* The signals collected by the loop, in scan order.
RECURSIVE CollectedUpTo(_)
CollectedUpTo(k) == IF k = 0 THEN <<>> ELSE CollectedUpTo(k - 1) \o evals[k].ret

Collected == CollectedUpTo(Len(evals))

\* C1: for a series that passed the length check and whose today bar passes
\* the price/volume filter, check_stock returns a Signal exactly when
\* today.high > week52_high, today.close > today.open and today.close > ema21;
\* the volume ratio plays no part.
C1_EmitIffThreeConditions ==
    \A k \in DOMAIN evals :
        (Evaluated(k) /\ PassesFilter(k)) =>
            LET ev == evals[k]
                df == UsedSeries(k)
                today == df[Len(df)].bar
            IN  (Len(ev.ret) = 1) <=>
                    /\ ev.week52_high # NaN
                    /\ today.High > ev.week52_high
                    /\ today.Close > today.Open
                    /\ FLess(ev.ema21, FOfMills(today.Close))

\* A Signal was returned although the 30-day average volume is zero, so that
\* vol_ratio is 0, below VOL_MULTIPLIER.
C1_Witness ==
    \E k \in DOMAIN evals :
        /\ Evaluated(k) /\ PassesFilter(k)
        /\ Len(evals[k].ret) = 1
        /\ evals[k].ret[1].vol_ratio = 0
        /\ evals[k].ret[1].vol_ratio < VOL_MULTIPLIER

\* C2: no signal is returned when fewer than LOOKBACK_DAYS + 5 bars precede
\* the today bar in the series used for the computation.
C2_NoSignalUnderWarmup ==
    \A k \in DOMAIN evals :
        (market[k].kind = "frame" /\ Len(UsedSeries(k)) > 0
         /\ Len(UsedSeries(k)) - 1 < LOOKBACK_DAYS + WARMUP_ROWS)
            => evals[k].ret = <<>>

\* C5 as stated: for every Signal, sl_price is today's low, sl_pct is
\* (close - low)/close*100 rounded to 2 decimals, target_price is
\* close + 2*(close - low) rounded to 2 decimals, target_pct is 2 * sl_pct.
C5_RiskLevelsAsStated ==
    \A k \in DOMAIN evals :
        Len(evals[k].ret) = 1 =>
            LET sig == evals[k].ret[1]
                df == UsedSeries(k)
                today == df[Len(df)].bar
                c == FOfMills(today.Close)
                l == FOfMills(today.Low)
            IN  /\ sig.sl_price * (PriceScale \div 100) = today.Low
                /\ IsRounded(sig.sl_pct, ExactTimes(10000, ExactSub(c, l)), c)
                /\ IsRounded(sig.target_price,
                             ExactTimes(100, ExactAdd(c, ExactTimes(2, ExactSub(c, l)))),
                             FFromInt(1))
                /\ sig.target_pct = 2 * sig.sl_pct

\* C5 (amended): for every Signal, sl_price is today's low rounded to 2
\* decimals, sl_pct is (close - low)/close*100 rounded to 2 decimals with the
\* unrounded low, target_price is close + 2*(close - low) rounded to 2
\* decimals with the unrounded low, and target_pct is exactly 2 * sl_pct of
\* the rounded, emitted sl_pct.
C5_RiskLevels ==
    \A k \in DOMAIN evals :
        Len(evals[k].ret) = 1 =>
            LET sig == evals[k].ret[1]
                df == UsedSeries(k)
                today == df[Len(df)].bar
                c == FOfMills(today.Close)
                l == FOfMills(today.Low)
            IN  /\ IsRounded(sig.sl_price, ExactTimes(100, l), FFromInt(1))
                /\ IsRounded(sig.sl_pct, ExactTimes(10000, ExactSub(c, l)), c)
                /\ IsRounded(sig.target_price,
                             ExactTimes(100, ExactAdd(c, ExactTimes(2, ExactSub(c, l)))),
                             FFromInt(1))
                /\ sig.target_pct = 2 * sig.sl_pct

\* A Signal whose low has a third decimal and whose unrounded stop-loss
\* percentage, doubled, rounds to something else than twice the emitted one.
C5_Witness ==
    \E k \in DOMAIN evals :
        /\ Len(evals[k].ret) = 1
        /\ LET sig == evals[k].ret[1]
               today == evals[k].today
           IN  /\ today.Low % (PriceScale \div 100) # 0
               /\ ~IsNearest(2 * sig.sl_pct,
                             2 * (today.Close - today.Low) * 10000, today.Close)

\* The largest high of the whole series used for the k-th call.
SeriesHighest(k) ==
    LET df == UsedSeries(k)
        highs == { df[j].bar.High : j \in DOMAIN df }
    IN  CHOOSE h \in highs : \A g \in highs : g <= h

\* C6: every Signal is classified AllTimeHigh when
\* |week52_high - all_time_high| < 0.01 * week52_high and FiftyTwoWeekHigh
\* otherwise, all_time_high being the largest high of the whole series; so
\* 100.0 against 100.9 gives AllTimeHigh, against 102.0 and against 101.0
\* (exactly 1%) FiftyTwoWeekHigh.
C6_Classification ==
    \A k \in DOMAIN evals :
        Len(evals[k].ret) = 1 =>
            LET sig == evals[k].ret[1]
                w == evals[k].week52_high
                ath == SeriesHighest(k)
                fw == FOfMills(w)
            IN  /\ sig.breakout_type \in {"ATH", "52WH"}
                /\ (sig.breakout_type = "ATH")
                       <=> ExactLess(ExactTimes(100, FAbs(ExactSub(fw, FOfMills(ath)))), fw)
                /\ (w = 100 * PriceScale /\ ath = 100900) => sig.breakout_type = "ATH"
                /\ (w = 100 * PriceScale /\ ath = 102000) => sig.breakout_type = "52WH"
                /\ (w = 100 * PriceScale /\ ath = 101000) => sig.breakout_type = "52WH"

\* A Signal with week52_high 100.0 and all_time_high 101.0, exactly 1% apart.
C6_Witness ==
    \E k \in DOMAIN evals :
        /\ Len(evals[k].ret) = 1
        /\ evals[k].week52_high = 100 * PriceScale
        /\ SeriesHighest(k) = 101000
        /\ evals[k].ret[1].breakout_type = "52WH"

\* C9: for every series that is evaluated, week52_high is the largest high of
\* exactly the LOOKBACK_DAYS bars immediately before the today bar.
C9_WindowIsLookbackDays ==
    \A k \in DOMAIN evals :
        (Evaluated(k) /\ PassesFilter(k)) =>
            LET df == UsedSeries(k)
                n == Len(df)
            IN  /\ n - 1 >= LOOKBACK_DAYS
                /\ \A j \in (n - LOOKBACK_DAYS)..(n - 1) :
                       df[j].bar.High <= evals[k].week52_high
                /\ \E j \in (n - LOOKBACK_DAYS)..(n - 1) :
                       df[j].bar.High = evals[k].week52_high

\* C10: every Signal has all_time_high >= today.high > week52_high; it is
\* AllTimeHigh only if today.high < 1.01 * week52_high, and a breakout of at
\* least 1% is FiftyTwoWeekHigh even when today.high is the series' highest.
C10_BreakoutBoundsClass ==
    \A k \in DOMAIN evals :
        Len(evals[k].ret) = 1 =>
            LET sig == evals[k].ret[1]
                ev == evals[k]
                df == UsedSeries(k)
                today == df[Len(df)].bar
            IN  /\ ev.all_time_high >= today.High
                /\ today.High > ev.week52_high
                /\ sig.breakout_type = "ATH"
                       => ExactLess(ExactTimes(100, FOfMills(today.High)),
                                    ExactTimes(101, FOfMills(ev.week52_high)))
                /\ ExactLeq(ExactTimes(101, FOfMills(ev.week52_high)),
                            ExactTimes(100, FOfMills(today.High)))
                       => sig.breakout_type = "52WH"

\* A Signal whose today.high is the highest high of the series, 2% above
\* week52_high, classified FiftyTwoWeekHigh.
C10_Witness ==
    \E k \in DOMAIN evals :
        /\ Len(evals[k].ret) = 1
        /\ evals[k].today.High = SeriesHighest(k)
        /\ 100 * evals[k].today.High >= 101 * evals[k].week52_high
        /\ evals[k].ret[1].breakout_type = "52WH"

\* The fetch or the evaluation of symbol number sym fails: the download
\* throws, or every row of the frame has a missing value.
Fails(sym) ==
    \/ market[sym].kind = "raise"
    \/ market[sym].kind = "frame" /\ \A r \in 1..market[sym].rows : RowHasNaN(market[sym], r)

\* What scanning the symbols of `list` alone, in order, collects.
RECURSIVE SignalsOf(_)
SignalsOf(list) ==
    IF list = <<>> THEN <<>>
    ELSE check_stock(Head(list), market[Head(list)]).ret \o SignalsOf(Tail(list))

AllSymbols == [s \in 1..total |-> s]

\* C3: a failure while evaluating one symbol yields no signal for that symbol
\* only: the loop never stops early, every symbol is evaluated once, in list
\* order, and the collected signals are those of a scan over the list without
\* the failing symbols.
C3_FailureIsolated ==
    /\ pc \in {"scan", "present", "batches", "done"}
    /\ Len(evals) = i
    /\ \A k \in DOMAIN evals : evals[k].symbol = k
    /\ pc # "scan" => Len(evals) = total
    /\ \A k \in DOMAIN evals : Fails(k) => evals[k].ret = <<>>
    /\ pc = "present" =>
           results = SignalsOf(SelectSeq(AllSymbols, LAMBDA s : ~Fails(s)))

\* The scan is over, and a symbol that failed is followed by one whose signal
\* was collected.
C3_Witness ==
    /\ pc = "present"
    /\ \E s \in DOMAIN evals, t \in DOMAIN evals :
           /\ s < t
           /\ Fails(s) /\ evals[s].path = "exception"
           /\ evals[t].path = "signal"
           /\ \E r \in DOMAIN results : results[r].symbol = t

\* Position of signal r in the order of collection.
CollectedAt(r) == CHOOSE k \in DOMAIN Collected : Collected[k] = r

\* The bodies of the batch messages sent so far, one after the other.
RECURSIVE PresentedUpTo(_)
PresentedUpTo(c) ==
    IF c = 0 THEN <<>>
    ELSE PresentedUpTo(c - 1) \o (IF calls[c].msg = "batch" THEN calls[c].body ELSE <<>>)

Presented == PresentedUpTo(Len(calls))

\* C4: the presented sequence is a permutation of the collected signals in
\* descending vol_ratio, and signals of equal vol_ratio keep the order in
\* which their symbols were scanned.
C4_SortedStable ==
    pc \in {"batches", "done"} =>
        /\ Len(results) = Len(Collected)
        /\ \A k \in DOMAIN Collected : \E r \in DOMAIN results : results[r] = Collected[k]
        /\ \A a \in DOMAIN results, b \in DOMAIN results :
               a < b =>
                   /\ results[a].vol_ratio >= results[b].vol_ratio
                   /\ results[a].vol_ratio = results[b].vol_ratio
                          => CollectedAt(results[a]) < CollectedAt(results[b])
        /\ Presented = SubSeq(results, 1, Len(Presented))
        /\ pc = "done" => Presented = results

\* Everything was presented; two signals tie on vol_ratio, and a signal was
\* collected before one of larger vol_ratio.
C4_Witness ==
    /\ pc = "done"
    /\ Presented = results
    /\ \E a \in DOMAIN results, b \in DOMAIN results :
           a < b /\ results[a].vol_ratio = results[b].vol_ratio
    /\ \E a \in DOMAIN Collected, b \in DOMAIN Collected :
           a < b /\ Collected[a].vol_ratio < Collected[b].vol_ratio

\* The posts made for the c-th send_telegram call, in order.
PostsOfCall(c) == SelectSeq(posts, LAMBDA p : p.call = c)

\* C7: a failed delivery never ends send_telegram or the run: each call
\* posts every chunk of its message in order whatever the outcomes (none
\* without credentials), posts of different calls follow call order, and the
\* finished run has made every call: the single "no breakouts" message, or
\* the header, each batch of BATCH_SIZE results and the footer.
C7_DeliveryNeverAborts ==
    /\ pc \in {"scan", "present", "batches", "done"}
    /\ \A c \in DOMAIN calls :
           LET sent == PostsOfCall(c)
           IN  /\ \A n \in DOMAIN sent : sent[n].chunk = n
               /\ IF creds
                  THEN /\ CHUNK_SIZE * (Len(sent) - 1) < calls[c].len
                       /\ calls[c].len <= CHUNK_SIZE * Len(sent)
                  ELSE sent = <<>>
    /\ \A a \in DOMAIN posts, b \in DOMAIN posts :
           a < b => posts[a].call <= posts[b].call
    /\ pc = "done" =>
           IF results = <<>>
           THEN Len(calls) = 1 /\ calls[1].msg = "empty"
           ELSE LET nb == (Len(results) + BATCH_SIZE - 1) \div BATCH_SIZE
                IN  /\ Len(calls) = nb + 2
                    /\ calls[1].msg = "header"
                    /\ calls[nb + 2].msg = "footer"
                    /\ \A b \in 1..nb :
                           /\ calls[b + 1].msg = "batch"
                           /\ calls[b + 1].body =
                                  SubSeq(results, BATCH_SIZE * (b - 1) + 1,
                                         IF BATCH_SIZE * b < Len(results)
                                         THEN BATCH_SIZE * b ELSE Len(results))

\* The run is over; the first chunk of a two-chunk message raised, its second
\* chunk was posted all the same, and so were the messages after it.
C7_Witness ==
    /\ pc = "done"
    /\ \E a \in DOMAIN posts, b \in DOMAIN posts, c \in DOMAIN posts :
           /\ a < b /\ b < c
           /\ posts[a].call = posts[b].call
           /\ posts[a].chunk = 1 /\ posts[a].outcome = "exception"
           /\ posts[b].chunk = 2
           /\ posts[c].call > posts[b].call
           /\ calls[posts[c].call].msg = "footer"

\* The last valid Bar of `bars` dated dt, as a sequence of at most one Bar.
LastValidFor(bars, dt) ==
    LET at == { k \in DOMAIN bars : ValidBar(bars[k]) /\ bars[k].date = dt }
    IN  IF at = {} THEN <<>>
        ELSE <<bars[CHOOSE k \in at : \A j \in at : j <= k]>>

\* C8: ingestion is idempotent: ingesting the batch just ingested once more
\* leaves the Series as it is; every Series holds one Bar per date, in date
\* order; and for each date of the batch the last valid Bar ingested for it
\* is the one kept.
C8_IngestIdempotent ==
    /\ \A sym \in DOMAIN store :
           \A a \in DOMAIN store[sym], b \in DOMAIN store[sym] :
               a < b => store[sym][a].date < store[sym][b].date
    /\ \A n \in DOMAIN lastIngest :
           LET sym == lastIngest[n].symbol
               bars == lastIngest[n].bars
           IN  /\ IngestAll(store[sym], bars) = store[sym]
               /\ \A k \in DOMAIN bars :
                      ValidBar(bars[k]) =>
                          SelectSeq(store[sym], LAMBDA x : x.date = bars[k].date)
                              = LastValidFor(bars, bars[k].date)

\* A batch with two different valid Bars for one date was ingested into a
\* Series that already held that date.
C8_Witness ==
    \E n \in DOMAIN lastIngest :
        LET bars == lastIngest[n].bars
        IN  /\ Len(bars) >= 2
            /\ ValidBar(bars[1]) /\ ValidBar(bars[2])
            /\ bars[1].date = bars[2].date
            /\ bars[1] # bars[2]
            /\ Len(store[lastIngest[n].symbol]) >= 2

====
